---- MODULE Spec2Model ----
(***************************************************************************)
(* SRGAN training script (src/train.py): the gradient health monitor       *)
(* check_grads and the control flow of main() -- generator pretraining,    *)
(* checkpoint resume, the adversarial epoch/batch loop, checkpoint saves   *)
(* and the validation/visualization pass.                                  *)
(*                                                                         *)
(* Tensors are abstracted to what the control flow reads: a parameter's    *)
(* gradient is a sequence of integers (<<>> stands for p.grad is None), a  *)
(* checkpoint file is its path, a validation sample is whether its         *)
(* mean-squared error is zero.                                             *)
(***************************************************************************)
EXTENDS Integers, Sequences, FiniteSets, Bags, TLC

VARIABLES
    check_point,   \* opt.check_point (line 66)
    n_epoch,       \* opt.num_epochs (line 64)
    cuda,          \* torch.cuda.is_available()
    nTrain,        \* len(train_loader)
    nDev,          \* len(dev_loader)
    files0,        \* content of cp/ when the process starts
    files,         \* content of cp/
    pc,            \* position of main()
    failure,       \* the unhandled exception that ended main(), or "none"
    epoch,         \* loop variable of the running epoch loop
    batch,         \* batches of the running epoch already fetched
    loadIdx,       \* next torch.load of lines 145-153
    gradD,         \* p.grad of each parameter of netD
    gradG,         \* p.grad of each parameter of netG
    stepsD,        \* optimizerD.step() calls
    stepsG,        \* step() calls on the current optimizerG
    signalled,     \* a check_grads call of main() returned False
    batchEvents,   \* operations of the running adversarial batch, in order
    schedule,      \* epochs started, in order: <<phase, epoch>>
    logged,        \* log_value calls: <<name, epoch>>
    writes,        \* torch.save calls of this process, a bag of paths
    reads,         \* torch.load calls that returned, in order
    dev_images,    \* the list dev_images of the validation pass
    devIdx,        \* validation samples already fetched in this pass
    vis,           \* PNG files written under vis/: <<epoch, index>>
    boundaryFiles, \* content of cp/ when the epoch loop last reached line 155
    cgModel,       \* check_grads in isolation: the model's p.grad values
    cgResult       \* check_grads in isolation: what the call returned

vars == <<check_point, n_epoch, cuda, nTrain, nDev, files0, files, pc, failure,
          epoch, batch, loadIdx, gradD, gradG, stepsD, stepsG, signalled,
          batchEvents, schedule, logged, writes, reads, dev_images, devIdx,
          vis, boundaryFiles, cgModel, cgResult>>

inputs == <<check_point, n_epoch, cuda, nTrain, nDev, files0>>
isolated == <<cgModel, cgResult>>

----------------------------------------------------------------------------
(* Bounds of the model *)

MaxCheckPoint == 5
MaxEpochs == 5
MaxTrainBatches == 2
MaxDev == 2
MaxDevVal == 21
MaxPriorEpochs == 5
MaxParams == 2
MaxNumel == 2

(* Program constants *)

n_epoch_pretrain == 5
GradThreshold == 100
SaveEvery == 5
DevImageCap == 60

----------------------------------------------------------------------------
(* Arithmetic on the floats check_grads builds: a float is a fraction      *)
(* <<numerator, denominator>> with a positive denominator.                 *)

Max(a, b) == IF a >= b THEN a ELSE b

RECURSIVE SumSeq(_)
SumSeq(s) == IF s = <<>> THEN 0 ELSE Head(s) + SumSeq(Tail(s))

\* float(p.grad.mean())
TensorMean(t) == <<SumSeq(t), Len(t)>>

FracAdd(x, y) == <<x[1] * y[2] + y[1] * x[2], x[2] * y[2]>>
FracGT(x, y) == x[1] * y[2] > y[1] * x[2]
FracOfInt(n) == <<n, 1>>

RECURSIVE FracSum(_)
FracSum(g) == IF g = <<>> THEN FracOfInt(0) ELSE FracAdd(Head(g), FracSum(Tail(g)))

RECURSIVE FracMax(_)
FracMax(g) ==
    IF Len(g) = 1 THEN Head(g)
    ELSE LET m == FracMax(Tail(g)) IN IF FracGT(Head(g), m) THEN Head(g) ELSE m

\* grads.any(): some element is nonzero; False for the empty array
NpAny(g) == \E i \in 1..Len(g) : g[i][1] # 0

\* grads.mean() > threshold; the mean of an empty array is nan, and nan > x is False
NpMeanGT(g, threshold) ==
    IF g = <<>> THEN "False"
    ELSE LET s == FracSum(g)
         IN IF FracGT(<<s[1], s[2] * Len(g)>>, FracOfInt(threshold)) THEN "True" ELSE "False"

\* grads.max() > threshold; max of an empty array raises ValueError
NpMaxGT(g, threshold) ==
    IF g = <<>> THEN "ValueError"
    ELSE IF FracGT(FracMax(g), FracOfInt(threshold)) THEN "True" ELSE "False"

\* lines 35-38: the mean of every parameter whose grad is not None
RECURSIVE CollectGrads(_)
CollectGrads(model) ==
    IF model = <<>> THEN <<>>
    ELSE IF Head(model) = <<>> THEN CollectGrads(Tail(model))
    ELSE <<TensorMean(Head(model))>> \o CollectGrads(Tail(model))

\* the comparison without the grads.any() guard
GuardedNoAny(any, test) == test

\* `a and b` on a numpy bool and a comparison: b is evaluated only when a holds
Guarded(any, test) == IF any THEN test ELSE "False"

\* check_grads(model, model_name): "True", "False", or the exception raised
check_grads(model) ==
    LET grads == CollectGrads(model)
        overMean == Guarded(NpAny(grads), NpMeanGT(grads, GradThreshold))
        overMax == Guarded(NpAny(grads), NpMaxGT(grads, GradThreshold))
    IN IF overMean \notin {"True", "False"} THEN overMean
       ELSE IF overMean = "True" THEN "False"
       ELSE IF overMax \notin {"True", "False"} THEN overMax
       ELSE IF overMax = "True" THEN "False"
       ELSE "True"

----------------------------------------------------------------------------
(* Gradients held by the two networks *)

\* values one backward pass can leave in one gradient element
BackwardVals == {0, 60, 150}

\* number of elements of each parameter of a network
ParamShape == <<1>>

NoGrads == [i \in 1..Len(ParamShape) |-> <<>>]

\* what one backward pass adds to the parameters of one network
BackwardGrads ==
    {c \in [1..Len(ParamShape) -> UNION {[1..ParamShape[i] -> BackwardVals] : i \in 1..Len(ParamShape)}] :
        \A i \in 1..Len(ParamShape) : Len(c[i]) = ParamShape[i]}

\* net.zero_grad(): every populated gradient is zeroed in place
ZeroGrad(grad) ==
    [i \in 1..Len(grad) |-> [j \in 1..Len(grad[i]) |-> 0]]

\* loss.backward(): gradients accumulate into p.grad
Accumulate(grad, c) ==
    [i \in 1..Len(grad) |->
        IF grad[i] = <<>> THEN c[i] ELSE [j \in 1..Len(c[i]) |-> grad[i][j] + c[i][j]]]

----------------------------------------------------------------------------
(* Checkpoint files *)

DevTag(c) == IF c THEN "gpu" ELSE "cpu"

\* a checkpoint path that leaves the epoch number out
PathNoEpoch(comp, e, c) == [comp |-> comp, tag |-> "epoch", epoch |-> 0, dev |-> DevTag(c)]

\* 'cp/<comp>_epoch_<e>_<dev>.pth'
Path(comp, e, c) == [comp |-> comp, tag |-> "epoch", epoch |-> e, dev |-> DevTag(c)]

\* 'cp/netG_epoch_pre_<dev>.pth'
PrePath(c) == [comp |-> "netG", tag |-> "pre", epoch |-> 0, dev |-> DevTag(c)]

\* all four components saved at the end of every epoch
EpochSavesEveryEpoch(e, c) ==
    {Path("netG", e, c), Path("netD", e, c), Path("optimizerG", e, c), Path("optimizerD", e, c)}

\* lines 235-246: what the end of adversarial epoch e saves
EpochSaves(e, c) ==
    {Path("netG", e, c)} \cup
    (IF e % SaveEvery = 0
     THEN {Path("netD", e, c), Path("optimizerG", e, c), Path("optimizerD", e, c)}
     ELSE {})

\* lines 145-153: the order of the four loads
LoadOrder == <<"netG", "netD", "optimizerG", "optimizerD">>

\* a load that falls back to the freshly initialised state when the file is missing
TorchLoadDefaulting(path) == "ok"

\* torch.load(path)
TorchLoad(path) == IF path \in files THEN "ok" ELSE "FileNotFoundError"

\* the range start without the max: a fresh start would begin at epoch 0
FirstEpochNoMax == 1 + check_point

\* line 155: range(1 + max(check_point, 0), n_epoch + 1 + max(check_point, 0))
FirstEpoch == 1 + Max(check_point, 0)
StopEpoch == n_epoch + 1 + Max(check_point, 0)

\* cp/ as an earlier fresh run on device c left it after k adversarial epochs
PriorDir(k, c) == {PrePath(c)} \cup UNION {EpochSaves(e, c) : e \in 1..k}

TrainMetrics == {"d_loss", "mse_loss", "tv_loss", "adv_loss", "g_loss"}
ValMetrics == {"ssim", "psnr"}

\* the operations of one adversarial batch, lines 174-221
BatchOrder ==
    <<"check_d", "zero_grad_d", "forward_g", "score_d", "backward_d", "step_d",
      "check_g", "zero_grad_g", "rescore_d", "backward_g", "step_g">>

----------------------------------------------------------------------------
(* main(): start and generator pretraining, lines 50-138 *)

\* lines 50-104: parse the options, build loaders and networks, enter pretraining
\* on a fresh start
Start ==
    /\ pc = "start"
    /\ IF check_point = -1
       THEN /\ pc' = "pretrain"
            /\ epoch' = 1
            /\ schedule' = Append(schedule, <<"pre", 1>>)
       ELSE /\ pc' = "init_opt"
            /\ UNCHANGED <<epoch, schedule>>
    /\ batch' = 0
    /\ UNCHANGED <<inputs, isolated, boundaryFiles, files, failure, loadIdx, gradD, gradG, stepsD,
                   stepsG, signalled, batchEvents, logged, writes, reads,
                   dev_images, devIdx, vis>>

\* lines 112-132: one pretraining batch: forward, zero_grad, MSE backward, step
PretrainBatch ==
    /\ pc = "pretrain"
    /\ batch < nTrain
    /\ batch' = batch + 1
    /\ \E c \in BackwardGrads : gradG' = Accumulate(ZeroGrad(gradG), c)
    /\ stepsG' = stepsG + 1
    /\ UNCHANGED <<inputs, isolated, boundaryFiles, files, pc, failure, epoch, loadIdx, gradD, stepsD,
                   signalled, batchEvents, schedule, logged, writes, reads,
                   dev_images, devIdx, vis>>

\* lines 134-138, and the step of the loop of line 104
PretrainSave ==
    /\ pc = "pretrain"
    /\ batch = nTrain
    /\ files' = files \cup {PrePath(cuda)}
    /\ writes' = writes (+) SetToBag({PrePath(cuda)})
    /\ IF epoch < n_epoch_pretrain
       THEN /\ epoch' = epoch + 1
            /\ batch' = 0
            /\ schedule' = Append(schedule, <<"pre", epoch + 1>>)
            /\ pc' = pc
       ELSE /\ pc' = "init_opt"
            /\ UNCHANGED <<epoch, batch, schedule>>
    /\ UNCHANGED <<inputs, isolated, boundaryFiles, failure, loadIdx, gradD, gradG, stepsD, stepsG,
                   signalled, batchEvents, logged, reads, dev_images, devIdx, vis>>

----------------------------------------------------------------------------
(* main(): optimizers and resume, lines 140-153 *)

\* lines 140-143: fresh Adam optimizers for both networks
InitOptimizers ==
    /\ pc = "init_opt"
    /\ stepsG' = 0
    /\ stepsD' = 0
    /\ IF check_point # -1
       THEN /\ pc' = "load"
            /\ loadIdx' = 1
            /\ UNCHANGED epoch
       ELSE /\ pc' = "epoch_loop"
            /\ epoch' = FirstEpoch
            /\ UNCHANGED loadIdx
    /\ UNCHANGED <<inputs, isolated, boundaryFiles, files, failure, batch, gradD, gradG, signalled,
                   batchEvents, schedule, logged, writes, reads, dev_images,
                   devIdx, vis>>

\* lines 144-153: the next of the four torch.load / load_state_dict calls
LoadCheckpoint ==
    /\ pc = "load"
    /\ LET path == Path(LoadOrder[loadIdx], check_point, cuda)
           got == TorchLoad(path)
       IN IF got # "ok"
          THEN /\ pc' = "failed"
               /\ failure' = got
               /\ UNCHANGED <<reads, loadIdx, epoch>>
          ELSE /\ reads' = Append(reads, path)
               /\ failure' = failure
               /\ IF loadIdx < Len(LoadOrder)
                  THEN /\ loadIdx' = loadIdx + 1
                       /\ UNCHANGED <<pc, epoch>>
                  ELSE /\ pc' = "epoch_loop"
                       /\ epoch' = FirstEpoch
                       /\ UNCHANGED loadIdx
    /\ UNCHANGED <<inputs, isolated, boundaryFiles, files, batch, gradD, gradG, stepsD, stepsG,
                   signalled, batchEvents, schedule, logged, writes, dev_images,
                   devIdx, vis>>

----------------------------------------------------------------------------
(* main(): the adversarial epoch loop, lines 155-246 *)

\* lines 155-161: the next epoch of the range, or the end of main()
EpochStart ==
    /\ pc = "epoch_loop"
    /\ IF epoch < StopEpoch
       THEN /\ pc' = "train_d"
            /\ batch' = 0
            /\ schedule' = Append(schedule, <<"adv", epoch>>)
       ELSE /\ pc' = "done"
            /\ UNCHANGED <<batch, schedule>>
    /\ boundaryFiles' = files
    /\ UNCHANGED <<inputs, isolated, files, failure, epoch, loadIdx, gradD, gradG,
                   stepsD, stepsG, signalled, batchEvents, logged, writes, reads,
                   dev_images, devIdx, vis>>

\* what an adversarial batch step leaves alone besides pc, batchEvents and the
\* variables it names
BatchFrame ==
    UNCHANGED <<inputs, isolated, boundaryFiles, files, failure, epoch, loadIdx, schedule, logged,
                writes, reads, dev_images, devIdx, vis>>

\* a health check that only warns
OnUnhealthyContinue(next) == next

\* where main() goes when check_grads returns False: lines 176 and 203
OnUnhealthy(next) == "returned"

\* lines 163-176: fetch the next batch, health-check netD
CheckD ==
    /\ pc = "train_d"
    /\ batch < nTrain
    /\ batch' = batch + 1
    /\ batchEvents' = <<"check_d">>
    /\ LET r == check_grads(gradD)
       IN IF r = "True"
          THEN /\ pc' = "zero_grad_d"
               /\ UNCHANGED <<signalled, failure>>
          ELSE IF r = "False"
          THEN /\ pc' = OnUnhealthy("zero_grad_d")
               /\ signalled' = TRUE
               /\ UNCHANGED failure
          ELSE /\ pc' = "failed"
               /\ failure' = r
               /\ UNCHANGED signalled
    /\ UNCHANGED <<inputs, isolated, boundaryFiles, files, epoch, loadIdx, gradD, gradG, stepsD, stepsG,
                   schedule, logged, writes, reads, dev_images, devIdx, vis>>

\* line 177
ZeroGradD ==
    /\ pc = "zero_grad_d"
    /\ gradD' = ZeroGrad(gradD)
    /\ batchEvents' = Append(batchEvents, "zero_grad_d")
    /\ pc' = "forward_g"
    /\ BatchFrame
    /\ UNCHANGED <<batch, gradG, stepsD, stepsG, signalled>>

\* line 179: fake_img_hr = netG(lowres)
ForwardG ==
    /\ pc = "forward_g"
    /\ batchEvents' = Append(batchEvents, "forward_g")
    /\ pc' = "score_d"
    /\ BatchFrame
    /\ UNCHANGED <<batch, gradD, gradG, stepsD, stepsG, signalled>>

\* lines 182-183: logits_real, logits_fake
ScoreD ==
    /\ pc = "score_d"
    /\ batchEvents' = Append(batchEvents, "score_d")
    /\ pc' = "backward_d"
    /\ BatchFrame
    /\ UNCHANGED <<batch, gradD, gradG, stepsD, stepsG, signalled>>

\* lines 188-198: soft labels, d_loss, d_loss.backward(retain_graph=True); the fake
\* image is not detached, so the pass accumulates into netG's gradients too
BackwardD ==
    /\ pc = "backward_d"
    /\ \E d \in BackwardGrads : gradD' = Accumulate(gradD, d)
    /\ \E g \in BackwardGrads : gradG' = Accumulate(gradG, g)
    /\ batchEvents' = Append(batchEvents, "backward_d")
    /\ pc' = "step_d"
    /\ BatchFrame
    /\ UNCHANGED <<batch, stepsD, stepsG, signalled>>

\* line 199 with the generator's health check of lines 202-203 left out
StepDSkipsCheckG ==
    /\ pc = "step_d"
    /\ stepsD' = stepsD + 1
    /\ batchEvents' = Append(batchEvents, "step_d")
    /\ pc' = "zero_grad_g"
    /\ BatchFrame
    /\ UNCHANGED <<batch, gradD, gradG, stepsG, signalled>>

\* line 199: optimizerD.step() applies netD's gradients
StepD ==
    /\ pc = "step_d"
    /\ stepsD' = stepsD + 1
    /\ batchEvents' = Append(batchEvents, "step_d")
    /\ pc' = "check_g"
    /\ BatchFrame
    /\ UNCHANGED <<batch, gradD, gradG, stepsG, signalled>>

\* lines 202-203: health-check netG
CheckG ==
    /\ pc = "check_g"
    /\ batchEvents' = Append(batchEvents, "check_g")
    /\ LET r == check_grads(gradG)
       IN IF r = "True"
          THEN /\ pc' = "zero_grad_g"
               /\ UNCHANGED <<signalled, failure>>
          ELSE IF r = "False"
          THEN /\ pc' = OnUnhealthy("zero_grad_g")
               /\ signalled' = TRUE
               /\ UNCHANGED failure
          ELSE /\ pc' = "failed"
               /\ failure' = r
               /\ UNCHANGED signalled
    /\ UNCHANGED <<inputs, isolated, boundaryFiles, files, epoch, batch, loadIdx, gradD, gradG, stepsD,
                   stepsG, schedule, logged, writes, reads, dev_images, devIdx, vis>>

\* line 204
ZeroGradG ==
    /\ pc = "zero_grad_g"
    /\ gradG' = ZeroGrad(gradG)
    /\ batchEvents' = Append(batchEvents, "zero_grad_g")
    /\ pc' = "rescore_d"
    /\ BatchFrame
    /\ UNCHANGED <<batch, gradD, stepsD, stepsG, signalled>>

\* lines 206-218: image loss, a fresh netD(fake_img_hr), adversarial and TV loss
RescoreD ==
    /\ pc = "rescore_d"
    /\ batchEvents' = Append(batchEvents, "rescore_d")
    /\ pc' = "backward_g"
    /\ BatchFrame
    /\ UNCHANGED <<batch, gradD, gradG, stepsD, stepsG, signalled>>

\* line 220: g_loss.backward(); the adversarial term runs through netD, so the
\* pass accumulates into netD's gradients too
BackwardG ==
    /\ pc = "backward_g"
    /\ \E g \in BackwardGrads : gradG' = Accumulate(gradG, g)
    /\ \E d \in BackwardGrads : gradD' = Accumulate(gradD, d)
    /\ batchEvents' = Append(batchEvents, "backward_g")
    /\ pc' = "step_g"
    /\ BatchFrame
    /\ UNCHANGED <<batch, stepsD, stepsG, signalled>>

\* lines 221-224: optimizerG.step() applies netG's gradients
StepG ==
    /\ pc = "step_g"
    /\ stepsG' = stepsG + 1
    /\ batchEvents' = Append(batchEvents, "step_g")
    /\ pc' = "train_d"
    /\ BatchFrame
    /\ UNCHANGED <<batch, gradD, gradG, stepsD, signalled>>

\* lines 226-232: the epoch's averaged training losses go to the metrics sink
LogTrain ==
    /\ pc = "train_d"
    /\ batch = nTrain
    /\ logged' = logged \cup {<<m, epoch>> : m \in TrainMetrics}
    /\ pc' = "save"
    /\ UNCHANGED <<inputs, isolated, boundaryFiles, files, failure, epoch, batch, loadIdx, gradD, gradG,
                   stepsD, stepsG, signalled, batchEvents, schedule, writes, reads,
                   dev_images, devIdx, vis>>

\* lines 234-246
SaveCheckpoints ==
    /\ pc = "save"
    /\ files' = files \cup EpochSaves(epoch, cuda)
    /\ writes' = writes (+) SetToBag(EpochSaves(epoch, cuda))
    /\ pc' = "val_start"
    /\ UNCHANGED <<inputs, isolated, boundaryFiles, failure, epoch, batch, loadIdx, gradD, gradG,
                   stepsD, stepsG, signalled, batchEvents, schedule, logged, reads,
                   dev_images, devIdx, vis>>

----------------------------------------------------------------------------
(* main(): the validation / visualization pass, lines 248-291 *)

\* line 268: 10 * log10(1 / mse) on Python floats; 1 / 0.0 raises
Psnr(mseZero) == IF mseZero THEN "ZeroDivisionError" ELSE "ok"

\* the cap test with <= for <
ExtendDevImagesInclusive(images, i) ==
    IF Len(images) <= DevImageCap
    THEN images \o << <<"hr_restore", i>>, <<"hr", i>>, <<"sr", i>> >>
    ELSE images

\* lines 276-277: three images per sample while fewer than the cap are held
ExtendDevImages(images, i) ==
    IF Len(images) < DevImageCap
    THEN images \o << <<"hr_restore", i>>, <<"hr", i>>, <<"sr", i>> >>
    ELSE images

\* lines 249-257
ValStart ==
    /\ pc = "val_start"
    /\ dev_images' = <<>>
    /\ devIdx' = 0
    /\ pc' = "val_loop"
    /\ UNCHANGED <<inputs, isolated, boundaryFiles, files, failure, epoch, batch, loadIdx, gradD, gradG,
                   stepsD, stepsG, signalled, batchEvents, schedule, logged, writes,
                   reads, vis>>

\* lines 258-277: one validation sample
ValSample ==
    /\ pc = "val_loop"
    /\ devIdx < nDev
    /\ \E mseZero \in BOOLEAN :
         LET r == Psnr(mseZero)
         IN IF r # "ok"
            THEN /\ pc' = "failed"
                 /\ failure' = r
                 /\ devIdx' = devIdx + 1
                 /\ UNCHANGED dev_images
            ELSE /\ dev_images' = ExtendDevImages(dev_images, devIdx + 1)
                 /\ devIdx' = devIdx + 1
                 /\ UNCHANGED <<pc, failure>>
    /\ UNCHANGED <<inputs, isolated, boundaryFiles, files, epoch, batch, loadIdx, gradD, gradG, stepsD,
                   stepsG, signalled, batchEvents, schedule, logged, writes, reads, vis>>

\* lines 279-287: stack, chunk into triples, one PNG per triple; torch.stack of
\* an empty list raises
SaveImages ==
    /\ pc = "val_loop"
    /\ devIdx = nDev
    /\ IF dev_images = <<>>
       THEN /\ pc' = "failed"
            /\ failure' = "RuntimeError"
            /\ UNCHANGED vis
       ELSE /\ vis' = vis \cup {<<epoch, i>> : i \in 1..(Len(dev_images) \div 3)}
            /\ pc' = "log_val"
            /\ UNCHANGED failure
    /\ UNCHANGED <<inputs, isolated, boundaryFiles, files, epoch, batch, loadIdx, gradD, gradG, stepsD,
                   stepsG, signalled, batchEvents, schedule, logged, writes, reads,
                   dev_images, devIdx>>

\* lines 289-291, and the step of the loop of line 155
LogVal ==
    /\ pc = "log_val"
    /\ logged' = logged \cup {<<m, epoch>> : m \in ValMetrics}
    /\ epoch' = epoch + 1
    /\ pc' = "epoch_loop"
    /\ UNCHANGED <<inputs, isolated, boundaryFiles, files, failure, batch, loadIdx, gradD, gradG, stepsD,
                   stepsG, signalled, batchEvents, schedule, writes, reads,
                   dev_images, devIdx, vis>>

----------------------------------------------------------------------------
(* check_grads called on its own *)

\* values of one gradient element
GradVals == {-150, 0, 100, 150}

Tensors == UNION {[1..n -> GradVals] : n \in 1..MaxNumel}

\* the p.grad of every parameter of a model: <<>> is None
CgModels == UNION {[1..k -> Tensors \cup {<<>>}] : k \in 0..MaxParams}

CheckGradsCall ==
    /\ pc = "cg_call"
    /\ cgResult' = check_grads(cgModel)
    /\ pc' = "cg_returned"
    /\ UNCHANGED <<inputs, boundaryFiles, files, failure, epoch, batch, loadIdx, gradD,
                   gradG, stepsD, stepsG, signalled, batchEvents, schedule, logged,
                   writes, reads, dev_images, devIdx, vis, cgModel>>

----------------------------------------------------------------------------
(* Specifications *)

\* the state main() starts in, the options and the environment aside
InitRun ==
    /\ files = files0
    /\ pc = "start"
    /\ failure = "none"
    /\ epoch = 0
    /\ batch = 0
    /\ loadIdx = 0
    /\ gradD = NoGrads
    /\ gradG = NoGrads
    /\ stepsD = 0
    /\ stepsG = 0
    /\ signalled = FALSE
    /\ batchEvents = <<>>
    /\ schedule = <<>>
    /\ logged = {}
    /\ writes = EmptyBag
    /\ reads = <<>>
    /\ dev_images = <<>>
    /\ devIdx = 0
    /\ vis = {}
    /\ boundaryFiles = files0
    /\ cgModel = <<>>
    /\ cgResult = "none"

\* cp/ is empty, or is what an earlier fresh run on the GPU left
PriorDirs == {{}} \cup {PriorDir(k, TRUE) : k \in 0..MaxPriorEpochs}

Init ==
    /\ check_point \in -1..MaxCheckPoint
    /\ n_epoch \in 0..MaxEpochs
    /\ cuda \in BOOLEAN
    /\ nTrain \in 1..MaxTrainBatches
    /\ nDev \in 0..MaxDev
    /\ files0 \in PriorDirs
    /\ InitRun

Next ==
    \/ Start
    \/ PretrainBatch
    \/ PretrainSave
    \/ InitOptimizers
    \/ LoadCheckpoint
    \/ EpochStart
    \/ CheckD
    \/ ZeroGradD
    \/ ForwardG
    \/ ScoreD
    \/ BackwardD
    \/ StepD
    \/ CheckG
    \/ ZeroGradG
    \/ RescoreD
    \/ BackwardG
    \/ StepG
    \/ LogTrain
    \/ SaveCheckpoints
    \/ ValStart
    \/ ValSample
    \/ SaveImages
    \/ LogVal

Spec == Init /\ [][Next]_vars

\* one-epoch runs over validation sets up to MaxDevVal samples
InitVal ==
    /\ check_point \in {-1, SaveEvery}
    /\ n_epoch = 1
    /\ cuda = TRUE
    /\ nTrain = 1
    /\ nDev \in 0..MaxDevVal
    /\ files0 \in {{}, PriorDir(SaveEvery, TRUE)}
    /\ InitRun

SpecVal == InitVal /\ [][Next]_vars

\* check_grads on every model of the bounded shapes
InitGrad ==
    /\ check_point = -1
    /\ n_epoch = 0
    /\ cuda = FALSE
    /\ nTrain = 1
    /\ nDev = 0
    /\ files0 = {}
    /\ files = {}
    /\ pc = "cg_call"
    /\ failure = "none"
    /\ epoch = 0
    /\ batch = 0
    /\ loadIdx = 0
    /\ gradD = NoGrads
    /\ gradG = NoGrads
    /\ stepsD = 0
    /\ stepsG = 0
    /\ signalled = FALSE
    /\ batchEvents = <<>>
    /\ schedule = <<>>
    /\ logged = {}
    /\ writes = EmptyBag
    /\ reads = <<>>
    /\ dev_images = <<>>
    /\ devIdx = 0
    /\ vis = {}
    /\ boundaryFiles = {}
    /\ cgModel \in CgModels
    /\ cgResult = "none"

NextGrad == CheckGradsCall

SpecGrad == InitGrad /\ [][NextGrad]_vars

----------------------------------------------------------------------------
(* Properties *)

LastEvent == IF batchEvents = <<>> THEN "none" ELSE batchEvents[Len(batchEvents)]

IsPrefix(a, b) == Len(a) <= Len(b) /\ \A i \in 1..Len(a) : a[i] = b[i]

\* the checkpoint epoch a run resumes from; 0 on a fresh start
ResumeEpoch == IF check_point = -1 THEN 0 ELSE check_point

PretrainSchedule ==
    IF check_point = -1 THEN [i \in 1..5 |-> <<"pre", i>>] ELSE <<>>

FullSchedule ==
    PretrainSchedule \o [i \in 1..n_epoch |-> <<"adv", ResumeEpoch + i>>]

\* C1: the epochs a run starts are, in order, the 5 pretraining epochs of a fresh
\* start (none on resume) followed by the adversarial epochs E+1 .. E+N; the
\* discriminator is never updated during pretraining; a run that reaches the end
\* of main() has started exactly that schedule, each epoch once.
C1_EpochSchedule ==
    /\ IsPrefix(schedule, FullSchedule)
    /\ pc = "pretrain" => stepsD = 0 /\ gradD = NoGrads
    /\ pc \in {"epoch_loop", "train_d", "save", "val_start", "val_loop", "log_val", "done"}
          => IsPrefix(PretrainSchedule, schedule)
    /\ pc = "done" => schedule = FullSchedule

\* a resumed run of three epochs has reached the end of main()
C1_Witness ==
    /\ pc = "done"
    /\ check_point = 5
    /\ n_epoch = 3
    /\ schedule = << <<"adv", 6>>, <<"adv", 7>>, <<"adv", 8>> >>

\* C2: the gradients an optimizer step has just applied are gradients the health
\* monitor reports healthy.
C2_StepAppliesHealthyGrads ==
    /\ LastEvent = "step_d" => check_grads(gradD) = "True"
    /\ LastEvent = "step_g" => check_grads(gradG) = "True"

\* adversarial epochs whose checkpoints have been saved
SavedEpochs ==
    {e \in FirstEpoch..epoch :
        /\ <<"adv", e>> \in {schedule[i] : i \in 1..Len(schedule)}
        /\ e < epoch \/ pc \in {"val_start", "val_loop", "log_val"}}

RarelySaved == {"netD", "optimizerG", "optimizerD"}

\* C3: in a run started on an empty cp/, every completed adversarial epoch has its
\* generator checkpoint, a discriminator or optimizer checkpoint exists only for
\* epochs divisible by 5, and every completed epoch divisible by 5 has all three.
C3_CheckpointCadence ==
    files0 = {} =>
        /\ \A e \in SavedEpochs : Path("netG", e, cuda) \in files
        /\ \A f \in files : f.comp \in RarelySaved => f.epoch % 5 = 0 /\ f.epoch > 0
        /\ \A e \in SavedEpochs :
               e % 5 = 0 => \A comp \in RarelySaved : Path(comp, e, cuda) \in files

\* a fresh run on an empty cp/ has completed epoch 5
C3_Witness ==
    /\ files0 = {}
    /\ pc = "done"
    /\ 5 \in SavedEpochs
    /\ Path("optimizerD", 5, cuda) \in files
    /\ Path("netG", 4, cuda) \in files

\* the resume checkpoint lacks the discriminator or an optimizer checkpoint
ResumeStateMissing ==
    /\ check_point # -1
    /\ \E comp \in RarelySaved : Path(comp, check_point, cuda) \notin files0

\* C4: a resume whose discriminator or optimizer checkpoint is missing never gets
\* past the loads: no epoch starts, no optimizer steps, nothing is logged or
\* written, and the only way the run ends is the missing-file failure.
C4_MissingResumeStateIsFatal ==
    ResumeStateMissing =>
        /\ pc \in {"start", "init_opt", "load", "failed"}
        /\ pc = "failed" => failure = "FileNotFoundError"
        /\ schedule = <<>>
        /\ stepsD = 0 /\ stepsG = 0
        /\ logged = {}
        /\ writes = EmptyBag /\ files = files0

\* resuming from epoch 3: the generator loads, the discriminator file is missing
C4_Witness ==
    /\ check_point = 3
    /\ pc = "failed"
    /\ failure = "FileNotFoundError"
    /\ reads = <<Path("netG", 3, cuda)>>

\* all elements of the populated gradients of a model
RECURSIVE AllValues(_)
AllValues(model) ==
    IF model = <<>> THEN <<>> ELSE Head(model) \o AllValues(Tail(model))

Populated(model) == {i \in 1..Len(model) : model[i] # <<>>}

RECURSIVE ProdLen(_)
ProdLen(model) ==
    IF model = <<>> THEN 1
    ELSE (IF Head(model) = <<>> THEN 1 ELSE Len(Head(model))) * ProdLen(Tail(model))

RECURSIVE ScaledMeans(_, _)
ScaledMeans(model, scale) ==
    IF model = <<>> THEN 0
    ELSE (IF Head(model) = <<>> THEN 0 ELSE SumSeq(Head(model)) * (scale \div Len(Head(model))))
         + ScaledMeans(Tail(model), scale)

\* the mean, over the populated parameters, of each parameter's mean gradient
\* exceeds 100
MeanOfParamMeansOver(model) ==
    /\ Populated(model) # {}
    /\ ScaledMeans(model, ProdLen(model)) > 100 * Cardinality(Populated(model)) * ProdLen(model)

\* some populated parameter's mean gradient exceeds 100
MaxOfParamMeansOver(model) ==
    \E i \in Populated(model) : SumSeq(model[i]) > 100 * Len(model[i])

C6_AbortSemantics ==
    /\ [](signalled =>
            /\ pc = "returned"
            /\ LastEvent \in {"check_d", "check_g"}
            /\ files = boundaryFiles)
    /\ [][signalled =>
            UNCHANGED <<pc, stepsD, stepsG, gradD, gradG, logged, files, writes, vis,
                        dev_images, devIdx, schedule>>]_vars

\* the generator check aborts the second epoch of a fresh run
C6_Witness ==
    /\ signalled
    /\ pc = "returned"
    /\ LastEvent = "check_g"
    /\ check_point = -1
    /\ epoch = 2
    /\ files = files0 \cup {PrePath(cuda), Path("netG", 1, cuda)}

C8_PsnrOfPerfectSampleDefined ==
    failure # "ZeroDivisionError"

\* batches of the adversarial phase fetched so far
BatchesFetched ==
    LET adv == {i \in 1..Len(schedule) : schedule[i][1] = "adv"}
    IN IF adv = {} THEN 0 ELSE (Cardinality(adv) - 1) * nTrain + batch

InBatch ==
    pc \in {"zero_grad_d", "forward_g", "score_d", "backward_d", "step_d", "check_g",
            "zero_grad_g", "rescore_d", "backward_g", "step_g"}

Occurs(e) == \E i \in 1..Len(batchEvents) : batchEvents[i] = e

\* C9: the operations of an adversarial batch happen in the order of BatchOrder,
\* none skipped or repeated: the batch so far is a prefix of that order, its next
\* operation is the next of the order, only an abort cuts it short, and each
\* optimizer has stepped exactly once in every batch that got to its step.
C9_BatchOrdering ==
    /\ IsPrefix(batchEvents, BatchOrder)
    /\ InBatch => pc = BatchOrder[Len(batchEvents) + 1]
    /\ ~InBatch /\ batchEvents # <<>> /\ batchEvents # BatchOrder => pc = "returned"
    /\ BatchesFetched > 0 =>
          /\ stepsD = BatchesFetched - (IF batch > 0 /\ ~Occurs("step_d") THEN 1 ELSE 0)
          /\ stepsG = BatchesFetched - (IF batch > 0 /\ ~Occurs("step_g") THEN 1 ELSE 0)

\* the second batch of an epoch has run all eleven operations
C9_Witness ==
    /\ batchEvents = BatchOrder
    /\ pc = "train_d"
    /\ batch = 2
    /\ stepsD >= 2
    /\ stepsG >= 2

\* pretraining epochs whose end-of-epoch save has run
PretrainSaves ==
    IF check_point # -1 \/ pc = "start" THEN 0
    ELSE IF pc = "pretrain" THEN epoch - 1
    ELSE 5

ReadsAtStartOnly ==
    /\ Len(reads) <= Len(LoadOrder)
    /\ \A i \in 1..Len(reads) : reads[i] = Path(LoadOrder[i], check_point, cuda)
    /\ reads # <<>> => check_point # -1
    /\ check_point # -1 /\ pc \notin {"start", "init_opt", "load", "failed"}
          => Len(reads) = Len(LoadOrder)
    /\ check_point # -1 /\ Len(reads) < Len(LoadOrder) => schedule = <<>> /\ writes = EmptyBag

\* C10 as stated: every checkpoint file, the pretrained-tag one included, is
\* written at most once in a run, the pretrained-tag one only after the 5th
\* pretraining epoch, and files are read only at process start when resuming.
C10_WriteOnce ==
    /\ \A f \in BagToSet(writes) : CopiesIn(f, writes) = 1
    /\ BagIn(PrePath(cuda), writes) => PretrainSaves = 5
    /\ ReadsAtStartOnly

\* C10 amended: every epoch-numbered checkpoint file is written at most once in a
\* run; the pretrained-tag checkpoint is written at the end of every pretraining
\* epoch, five times in all, and never afterwards; files are read only at process
\* start when resuming.
C10_WriteOncePerEpochFile ==
    /\ \A f \in BagToSet(writes) : f.tag = "epoch" => CopiesIn(f, writes) = 1
    /\ \A f \in BagToSet(writes) : f.tag = "pre" => f = PrePath(cuda)
    /\ CopiesIn(PrePath(cuda), writes) = PretrainSaves
    /\ ReadsAtStartOnly

\* a fresh two-epoch run has ended: five pretrained-tag writes, one per epoch file
C10_Witness ==
    /\ pc = "done"
    /\ CopiesIn(PrePath(cuda), writes) = 5
    /\ CopiesIn(Path("netG", 1, cuda), writes) = 1
    /\ CopiesIn(Path("netG", 2, cuda), writes) = 1

====
